---- MODULE Spec2Model ----
(***************************************************************************)
(* Model of the Nova Sonic streaming session (SimpleNovaSonicStreaming in  *)
(* nova_sonic_class_streaming.py) together with its two hosts: the CLI     *)
(* demo (demo_streaming.py, start_conversation of the class) and the HTTP  *)
(* webhook (nova_sonic_webhook.py).                                        *)
(*                                                                         *)
(* asyncio is cooperative: an action is the code a coroutine runs between  *)
(* two suspension points (an await that really yields: a transport send,   *)
(* a sleep, a get on an empty queue, a receive, the transport close).      *)
(* wire is the sequence of events handed to input_stream.send, in call     *)
(* order; an event's ok field tells whether that send raised.              *)
(***************************************************************************)
EXTENDS Integers, Sequences, FiniteSets, TLC

\* ---------------------------------------------------------------- bounds
MaxRequests == 2    \* HTTP requests (audio and end together) of a run
MaxAudioReqs == 2   \* POST /conversation/audio requests among them
MaxEndReqs == 2     \* POST /conversation/end requests among them
MaxFrames == 3      \* blocks the capture device delivers in a run
MaxInbound == 3     \* messages the remote endpoint delivers in a run

AudioReqs == 1..MaxAudioReqs
EndReqs == 1..MaxEndReqs

\* the one session of the run (its uuid4 key in active_sessions)
SessionId == "s1"

VARIABLES
    host,               \* "demo" | "webhook": which program drives the session
    init_pc,            \* position of initialize_stream
    stream_response,    \* TRUE once invoke_model_with_bidirectional_stream returned
    is_active,          \* self.is_active
    wire,               \* events handed to input_stream.send, in order
    audio_input_queue,  \* self.audio_input_queue (capture queue)
    audio_output_queue, \* self.audio_output_queue (playback queue)
    pump_pc,            \* position of the _process_audio_input task
    disp_pc,            \* position of the _process_responses task
    demo_pc,            \* position of the demo's main coroutine
    areq_pc,            \* position of each send_audio_message request
    ereq_pc,            \* position of each end_conversation request
    active_sessions,    \* keys of the webhook's active_sessions dict
    close_count,        \* calls of stream_response.input_stream.close()
    terminate_count,    \* calls of self.p.terminate()
    input_stream,       \* the PyAudio capture stream: "none" | "open" | "closed"
    next_frame,         \* number of the next captured frame
    inbound_count,      \* messages received so far
    failure_run,        \* failed receives in a row, up to the last one
    play_pc,            \* position of the play_output_audio task
    output_stream       \* TRUE once setup_audio_streams opened the playback stream

vars == <<host, init_pc, stream_response, is_active, wire,
          audio_input_queue, audio_output_queue, pump_pc, disp_pc, demo_pc,
          areq_pc, ereq_pc, active_sessions, close_count, terminate_count,
          input_stream, next_frame, inbound_count,
                   failure_run, play_pc, output_stream>>

\* ------------------------------------------------------------ wire events
\* variant: textInput sent before the contentStart that opens its content
HandshakeEvents_textFirst ==
    <<"sessionStart", "promptStart", "textInput", "contentStartSystem",
      "contentEndSystem">>

\* the five events of _send_initialization_events, in the order it sends them
HandshakeEvents ==
    <<"sessionStart", "promptStart", "contentStartSystem", "textInput",
      "contentEndSystem">>

\* contentName an event of that kind carries
ContentNameOf(kind) ==
    CASE kind \in {"contentStartSystem", "textInput", "contentEndSystem"} -> "content_name"
      [] kind \in {"contentStartAudio", "audioInput", "contentEndAudio"} -> "audio_content_name"
      [] OTHER -> "none"

Event(kind, frame, ok) ==
    [ev |-> kind, contentName |-> ContentNameOf(kind), frame |-> frame,
     ok |-> ok]

\* input_stream.send returns, or raises; once it has raised the stream is
\* broken and every later send raises too
SendOutcomes ==
    IF \A i \in 1..Len(wire) : wire[i].ok THEN {TRUE, FALSE} ELSE {FALSE}

\* _send_raw_event: the guard of its first line
CanSend_noActiveCheck(active) == stream_response

CanSend(active) == stream_response /\ active

\* _send_raw_event: the wire after the call, made while self.is_active =
\* active, for each outcome of the send
WireAfterSend(active, kind, frame) ==
    IF CanSend(active)
    THEN {Append(wire, Event(kind, frame, ok)) : ok \in SendOutcomes}
    ELSE {wire}

\* add_audio_chunk: put_nowait on the unbounded asyncio.Queue
QueueAfterAdd(q, frame) == Append(q, frame)

Frame(n, isEmpty) == [id |-> n, empty |-> isEmpty]

\* ------------------------------------------------------------------ Init
Init ==
    /\ host \in {"demo", "webhook"}
    /\ init_pc = "created"
    /\ stream_response = FALSE
    /\ is_active = FALSE
    /\ wire = <<>>
    /\ audio_input_queue = <<>>
    /\ audio_output_queue = <<>>
    /\ pump_pc = "none"
    /\ disp_pc = "none"
    /\ demo_pc = "init"
    /\ areq_pc = [r \in AudioReqs |-> "idle"]
    /\ ereq_pc = [e \in EndReqs |-> "idle"]
    /\ active_sessions = {}
    /\ close_count = 0
    /\ terminate_count = 0
    /\ input_stream = "none"
    /\ next_frame = 1
    /\ inbound_count = 0
    /\ failure_run = 0
    /\ play_pc = "none"
    /\ output_stream = FALSE

\* ------------------------------------------------------ initialize_stream
\* invoke_model_with_bidirectional_stream returns, or raises (also when the
\* client could not be built): except-branch sets is_active False and re-raises
InitOpen ==
    /\ init_pc = "created"
    /\ \/ /\ stream_response' = TRUE
          /\ is_active' = TRUE
          /\ init_pc' = "h1"
       \/ /\ is_active' = FALSE
          /\ init_pc' = "failed"
          /\ UNCHANGED stream_response
    /\ UNCHANGED <<host, wire, audio_input_queue,
                   audio_output_queue, pump_pc, disp_pc, demo_pc, areq_pc,
                   ereq_pc, active_sessions, close_count, terminate_count,
                   input_stream, next_frame, inbound_count,
                   failure_run, play_pc, output_stream>>

HandshakePc == <<"h1", "h2", "h3", "h4", "h5">>

\* variant: the tasks are created before the last handshake event is sent
NextInitPc_early(k) == IF k < 4 THEN HandshakePc[k + 1] ELSE "tasks"

\* pc after the k-th handshake send and its sleep(0.1)
NextInitPc(k) == IF k < 5 THEN HandshakePc[k + 1] ELSE "tasks"

\* _send_initialization_events: the k-th _send_raw_event and the sleep after it
InitSend(k) ==
    /\ init_pc = HandshakePc[k]
    /\ wire' \in WireAfterSend(is_active, HandshakeEvents[k], 0)
    /\ init_pc' = NextInitPc(k)
    /\ UNCHANGED <<host, stream_response, is_active, audio_input_queue, audio_output_queue, pump_pc, disp_pc,
                   demo_pc, areq_pc, ereq_pc, active_sessions, close_count,
                   terminate_count, input_stream, next_frame, inbound_count,
                   failure_run, play_pc, output_stream>>

\* the two create_task calls and the return; the webhook's start_conversation
\* then stores the session in active_sessions, the demo goes on to
\* start_conversation of the class
InitStartTasks ==
    /\ init_pc = "tasks"
    /\ init_pc' = "done"
    /\ disp_pc' = "loop"
    /\ pump_pc' = "loop"
    /\ IF host = "webhook"
       THEN /\ active_sessions' = active_sessions \cup {SessionId}
            /\ UNCHANGED demo_pc
       ELSE /\ demo_pc' = "ready"
            /\ UNCHANGED active_sessions
    /\ UNCHANGED <<host, stream_response, is_active, wire,
                   audio_input_queue, audio_output_queue, areq_pc, ereq_pc,
                   close_count, terminate_count, input_stream, next_frame,
                   inbound_count,
                   failure_run, play_pc, output_stream>>

\* a task made by create_task runs only once the creating coroutine has
\* reached a suspension point; the demo's main coroutine runs from the return
\* of initialize_stream to the send of start_conversation without one
Yielded == demo_pc # "ready"


\* ------------------------------------------------- _process_audio_input
\* variant: the newest chunk of the queue is taken instead of the oldest
PumpProcess_lifo ==
    /\ audio_input_queue' =
          SubSeq(audio_input_queue, 1, Len(audio_input_queue) - 1)
    /\ IF audio_input_queue[Len(audio_input_queue)].empty
       THEN /\ pump_pc' = "loop"
            /\ UNCHANGED wire
       ELSE /\ wire' \in WireAfterSend(is_active, "audioInput",
                          audio_input_queue[Len(audio_input_queue)].id)
            /\ pump_pc' = IF CanSend(is_active) THEN "send" ELSE "loop"

\* the body of the loop once queue.get() has returned the head of the queue:
\* an empty chunk is skipped, any other is sent as an audioInput event
PumpProcess ==
    /\ audio_input_queue' = Tail(audio_input_queue)
    /\ IF Head(audio_input_queue).empty
       THEN /\ pump_pc' = "loop"
            /\ UNCHANGED wire
       ELSE /\ wire' \in WireAfterSend(is_active, "audioInput",
                                     Head(audio_input_queue).id)
            /\ pump_pc' = IF CanSend(is_active) THEN "send" ELSE "loop"

\* `while self.is_active:` and the call of queue.get(), which suspends only
\* on an empty queue
PumpCheck ==
    /\ pump_pc = "loop"
    /\ Yielded
    /\ IF ~is_active
       THEN /\ pump_pc' = "done"
            /\ UNCHANGED <<wire, audio_input_queue>>
       ELSE IF audio_input_queue = <<>>
            THEN /\ pump_pc' = "get"
                 /\ UNCHANGED <<wire, audio_input_queue>>
            ELSE PumpProcess
    /\ UNCHANGED <<host, init_pc, stream_response, is_active, audio_output_queue, disp_pc, demo_pc, areq_pc, ereq_pc,
                   active_sessions, close_count, terminate_count,
                   input_stream, next_frame, inbound_count,
                   failure_run, play_pc, output_stream>>

\* the suspended queue.get() is woken by a put; it has no timeout and does
\* not look at is_active
PumpWake ==
    /\ pump_pc = "get"
    /\ audio_input_queue # <<>>
    /\ PumpProcess
    /\ UNCHANGED <<host, init_pc, stream_response, is_active, audio_output_queue, disp_pc, demo_pc, areq_pc, ereq_pc,
                   active_sessions, close_count, terminate_count,
                   input_stream, next_frame, inbound_count,
                   failure_run, play_pc, output_stream>>

\* input_stream.send returns or raises (the exception is printed and dropped)
PumpSendDone ==
    /\ pump_pc = "send"
    /\ pump_pc' = "loop"
    /\ UNCHANGED <<host, init_pc, stream_response, is_active, wire, audio_input_queue, audio_output_queue, disp_pc,
                   demo_pc, areq_pc, ereq_pc, active_sessions, close_count,
                   terminate_count, input_stream, next_frame, inbound_count,
                   failure_run, play_pc, output_stream>>

\* --------------------------------------------------- _process_responses
\* what one await_output()/receive() can yield
InboundKinds ==
    {"audioOutput", "otherEvent", "noEvent", "emptyChunk", "malformedJson",
     "badEnvelope", "badAudio", "badUtf8", "endOfStream", "receiveError"}

\* variant: an event that is not audioOutput raises like a bad payload
BreakingKinds_unknownRaises ==
    {"otherEvent", "badEnvelope", "badAudio", "badUtf8", "endOfStream",
     "receiveError"}

\* the kinds that leave the loop: StopAsyncIteration, and every exception
\* other than json.JSONDecodeError (caught by the outer except, which
\* breaks): a document or an event field that is not an object (TypeError),
\* an audioOutput without content or with bad base64, bytes that are not
\* UTF-8, an error of the receive
BreakingKinds ==
    {"badEnvelope", "badAudio", "badUtf8", "endOfStream", "receiveError"}

\* `while self.is_active:`; leaving the loop runs the finally clause
DispCheck ==
    /\ disp_pc = "loop"
    /\ Yielded
    /\ IF is_active
       THEN /\ disp_pc' = "recv"
            /\ UNCHANGED is_active
       ELSE /\ disp_pc' = "done"
            /\ is_active' = FALSE
    /\ UNCHANGED <<host, init_pc, stream_response, wire,
                   audio_input_queue, audio_output_queue, pump_pc, demo_pc,
                   areq_pc, ereq_pc, active_sessions, close_count,
                   terminate_count, input_stream, next_frame, inbound_count,
                   failure_run, play_pc, output_stream>>

\* the kinds that are failures of the inbound stream: a payload that does
\* not decode, or an error of the transport
FailureKinds ==
    {"malformedJson", "badEnvelope", "badAudio", "badUtf8", "receiveError"}

\* one message, end of stream or error from the remote endpoint
DispReceive(kind) ==
    /\ disp_pc = "recv"
    /\ inbound_count < MaxInbound
    /\ inbound_count' = inbound_count + 1
    /\ failure_run' = IF kind \in FailureKinds THEN failure_run + 1 ELSE 0
    /\ audio_output_queue' =
          IF kind = "audioOutput"
          THEN Append(audio_output_queue, "pcm")
          ELSE audio_output_queue
    /\ IF kind \in BreakingKinds
       THEN /\ disp_pc' = "done"
            /\ is_active' = FALSE
       ELSE /\ disp_pc' = "loop"
            /\ UNCHANGED is_active
    /\ UNCHANGED <<host, init_pc, stream_response, wire,
                   audio_input_queue, pump_pc, demo_pc, areq_pc, ereq_pc,
                   active_sessions, close_count, terminate_count,
                   input_stream, next_frame, play_pc, output_stream>>


\* ------------------------------------------------------ stop_conversation
\* from its first line to the await of input_stream.close():
\* is_active is cleared first, so the contentEnd of send_audio_content_end
\* meets the guard of _send_raw_event with is_active False
StopConversation ==
    /\ is_active' = FALSE
    /\ wire' \in WireAfterSend(FALSE, "contentEndAudio", 0)
    /\ input_stream' = IF input_stream = "none" THEN "none" ELSE "closed"
    /\ terminate_count' = terminate_count + 1
    /\ close_count' = IF stream_response THEN close_count + 1 ELSE close_count

\* ------------------------------------- the demo: start_conversation (class)
\* setup_audio_streams (p.open starts the capture stream, or raises and
\* leaves it None), then send_audio_content_start
StartConversation ==
    /\ demo_pc = "ready"
    /\ \/ input_stream' = "open" /\ output_stream' \in BOOLEAN
       \/ input_stream' = "none" /\ output_stream' = FALSE
    /\ wire' \in WireAfterSend(is_active, "contentStartAudio", 0)
    /\ demo_pc' = "start_send"
    /\ UNCHANGED <<host, init_pc, stream_response, is_active, audio_input_queue, audio_output_queue, pump_pc, disp_pc,
                   areq_pc, ereq_pc, active_sessions, close_count,
                   terminate_count, next_frame, inbound_count,
                   failure_run, play_pc>>

\* the send has returned; the playback task is created and the coroutine
\* waits for Enter in an executor
DemoListen ==
    /\ demo_pc = "start_send"
    /\ demo_pc' = "listening"
    /\ play_pc' = "loop"
    /\ UNCHANGED <<host, init_pc, stream_response, is_active, wire, audio_input_queue, audio_output_queue, pump_pc,
                   disp_pc, areq_pc, ereq_pc, active_sessions, close_count,
                   terminate_count, input_stream, next_frame, inbound_count,
                   failure_run, output_stream>>

\* Enter is pressed: stop_conversation up to the await of close()
DemoEnter ==
    /\ demo_pc = "listening"
    /\ StopConversation
    /\ demo_pc' = "closing"
    /\ UNCHANGED <<host, init_pc, stream_response, audio_input_queue, audio_output_queue, pump_pc, disp_pc,
                   areq_pc, ereq_pc, active_sessions, next_frame,
                   inbound_count,
                   failure_run, play_pc, output_stream>>

\* close() has returned and stop_conversation returns; start_conversation
\* cancels the playback task and awaits it; main returns, and asyncio.run
\* cancels the tasks that are left: the pump breaks on CancelledError, the
\* dispatcher runs its finally clause
DemoStopDone ==
    /\ demo_pc = "closing"
    /\ demo_pc' = "finished"
    /\ pump_pc' = "done"
    /\ disp_pc' = "done"
    /\ play_pc' = "done"
    /\ UNCHANGED <<host, init_pc, stream_response, is_active, wire, audio_input_queue, audio_output_queue, areq_pc,
                   ereq_pc, active_sessions, close_count, terminate_count,
                   input_stream, next_frame, inbound_count,
                   failure_run, output_stream>>

\* _input_callback: the device hands over one captured block; it is queued
\* only while is_active
InputCallback ==
    /\ input_stream = "open"
    /\ next_frame <= MaxFrames
    /\ next_frame' = next_frame + 1
    /\ audio_input_queue' =
          IF is_active
          THEN QueueAfterAdd(audio_input_queue, Frame(next_frame, FALSE))
          ELSE audio_input_queue
    /\ UNCHANGED <<host, init_pc, stream_response, is_active, wire, audio_output_queue, pump_pc, disp_pc, demo_pc,
                   areq_pc, ereq_pc, active_sessions, close_count,
                   terminate_count, input_stream, inbound_count,
                   failure_run, play_pc, output_stream>>

\* ------------------------------------------------------ play_output_audio
\* the loop test of play_output_audio
PlayCheck ==
    /\ play_pc = "loop"
    /\ play_pc' = IF is_active THEN "wait" ELSE "done"
    /\ UNCHANGED <<host, init_pc, stream_response, is_active, wire,
                   audio_input_queue, audio_output_queue, pump_pc, disp_pc,
                   demo_pc, areq_pc, ereq_pc, active_sessions, close_count,
                   terminate_count, input_stream, next_frame, inbound_count,
                   failure_run, output_stream>>

\* wait_for(queue.get(), timeout=0.1) returns a block; it is written to the
\* playback stream in an executor if the session is active and the stream
\* was opened
PlayGet ==
    /\ play_pc = "wait"
    /\ audio_output_queue # <<>>
    /\ audio_output_queue' = Tail(audio_output_queue)
    /\ play_pc' = IF is_active /\ output_stream THEN "write" ELSE "loop"
    /\ UNCHANGED <<host, init_pc, stream_response, is_active, wire,
                   audio_input_queue, pump_pc, disp_pc,
                   demo_pc, areq_pc, ereq_pc, active_sessions, close_count,
                   terminate_count, input_stream, next_frame, inbound_count,
                   failure_run, output_stream>>

\* the 0.1 s of wait_for run out on an empty queue: TimeoutError, continue
PlayTimeout_blocking ==
    /\ play_pc = "wait"
    /\ audio_output_queue = <<>>
    /\ UNCHANGED vars

PlayTimeout ==
    /\ play_pc = "wait"
    /\ audio_output_queue = <<>>
    /\ play_pc' = "loop"
    /\ UNCHANGED <<host, init_pc, stream_response, is_active, wire,
                   audio_input_queue, audio_output_queue, pump_pc, disp_pc,
                   demo_pc, areq_pc, ereq_pc, active_sessions, close_count,
                   terminate_count, input_stream, next_frame, inbound_count,
                   failure_run, output_stream>>

\* output_stream.write returns, or raises (the stream may have been closed
\* by stop_conversation meanwhile): except Exception, sleep(0.05)
PlayWriteDone ==
    /\ play_pc = "write"
    /\ play_pc' \in {"loop", "sleep"}
    /\ UNCHANGED <<host, init_pc, stream_response, is_active, wire,
                   audio_input_queue, audio_output_queue, pump_pc, disp_pc,
                   demo_pc, areq_pc, ereq_pc, active_sessions, close_count,
                   terminate_count, input_stream, next_frame, inbound_count,
                   failure_run, output_stream>>

\* the sleep(0.05) of the except clause is over
PlaySleepDone ==
    /\ play_pc = "sleep"
    /\ play_pc' = "loop"
    /\ UNCHANGED <<host, init_pc, stream_response, is_active, wire,
                   audio_input_queue, audio_output_queue, pump_pc, disp_pc,
                   demo_pc, areq_pc, ereq_pc, active_sessions, close_count,
                   terminate_count, input_stream, next_frame, inbound_count,
                   failure_run, output_stream>>

\* ------------------------------- the webhook: POST /conversation/audio
\* the pump task is in the event loop's ready queue: just created or back
\* from a send, or woken from queue.get() by a put
PumpReady ==
    \/ pump_pc = "loop"
    \/ pump_pc = "get" /\ audio_input_queue # <<>>

\* a background task is in the ready queue
TasksReady == PumpReady \/ disp_pc = "loop"

\* requests that have arrived
Started(pc) == Cardinality({r \in DOMAIN pc : pc[r] # "idle"})

\* a client learns the session id from the answer of /conversation/start, so
\* requests for it arrive once initialize_stream has returned; the event
\* loop runs the tasks of its ready queue before it serves new input;
\* requests are interchangeable and are numbered in order of arrival
Arrives(pc, r) ==
    /\ host = "webhook"
    /\ init_pc = "done"
    /\ ~TasksReady
    /\ Started(areq_pc) + Started(ereq_pc) < MaxRequests
    /\ IF r = 1 THEN TRUE ELSE pc[r - 1] # "idle"

\* send_audio_message up to its first suspension. An unknown session raises
\* HTTPException(404) inside the try, which `except Exception` turns into a
\* 500, as it does a body that is not base64. Otherwise
\* send_audio_content_start; when _send_raw_event drops the event nothing
\* suspends and add_audio_chunk and the sleep follow at once
AudioReqBegin(r) ==
    /\ areq_pc[r] = "idle"
    /\ Arrives(areq_pc, r)
    /\ \/ /\ SessionId \notin active_sessions
          /\ areq_pc' = [areq_pc EXCEPT ![r] = "done500"]
          /\ UNCHANGED <<wire, audio_input_queue, next_frame>>
       \/ /\ SessionId \in active_sessions
          /\ areq_pc' = [areq_pc EXCEPT ![r] = "done500"]
          /\ UNCHANGED <<wire, audio_input_queue, next_frame>>
       \/ /\ SessionId \in active_sessions
          /\ wire' \in WireAfterSend(is_active, "contentStartAudio", 0)
          /\ IF CanSend(is_active)
             THEN /\ areq_pc' = [areq_pc EXCEPT ![r] = "start_send"]
                  /\ UNCHANGED <<audio_input_queue, next_frame>>
             ELSE \E isEmpty \in BOOLEAN :
                  /\ audio_input_queue' =
                        QueueAfterAdd(audio_input_queue,
                                      Frame(next_frame, isEmpty))
                  /\ next_frame' = next_frame + 1
                  /\ areq_pc' = [areq_pc EXCEPT ![r] = "sleep"]
    /\ UNCHANGED <<host, init_pc, stream_response, is_active, audio_output_queue, pump_pc, disp_pc, demo_pc, ereq_pc,
                   active_sessions, close_count, terminate_count,
                   input_stream, inbound_count,
                   failure_run, play_pc, output_stream>>

\* the send of the contentStart has returned: add_audio_chunk, then sleep(1)
AudioReqPush(r) ==
    /\ areq_pc[r] = "start_send"
    /\ \E isEmpty \in BOOLEAN :
          audio_input_queue' =
             QueueAfterAdd(audio_input_queue, Frame(next_frame, isEmpty))
    /\ next_frame' = next_frame + 1
    /\ areq_pc' = [areq_pc EXCEPT ![r] = "sleep"]
    /\ UNCHANGED <<host, init_pc, stream_response, is_active, wire, audio_output_queue, pump_pc, disp_pc, demo_pc,
                   ereq_pc, active_sessions, close_count, terminate_count,
                   input_stream, inbound_count,
                   failure_run, play_pc, output_stream>>

\* the sleep(1) is over: send_audio_content_end, whatever is left in the
\* queue. The event loop runs its ready queue in order and appends a due
\* timer behind the tasks already there, so a pump that is ready runs first;
\* a pump suspended in a send does not
AudioReqEnd(r) ==
    /\ areq_pc[r] = "sleep"
    /\ ~PumpReady
    /\ wire' \in WireAfterSend(is_active, "contentEndAudio", 0)
    /\ areq_pc' = [areq_pc EXCEPT ![r] =
                      IF CanSend(is_active) THEN "end_send" ELSE "done200"]
    /\ UNCHANGED <<host, init_pc, stream_response, is_active, audio_input_queue, audio_output_queue, pump_pc, disp_pc,
                   demo_pc, ereq_pc, active_sessions, close_count,
                   terminate_count, input_stream, next_frame, inbound_count,
                   failure_run, play_pc, output_stream>>

\* the send of the contentEnd has returned: the request is answered
AudioReqReturn(r) ==
    /\ areq_pc[r] = "end_send"
    /\ areq_pc' = [areq_pc EXCEPT ![r] = "done200"]
    /\ UNCHANGED <<host, init_pc, stream_response, is_active, wire, audio_input_queue, audio_output_queue, pump_pc,
                   disp_pc, demo_pc, ereq_pc, active_sessions, close_count,
                   terminate_count, input_stream, next_frame, inbound_count,
                   failure_run, play_pc, output_stream>>

\* ------------------------- the webhook: POST /conversation/end/{session_id}
\* end_conversation up to the await of close() inside stop_conversation
EndReqBegin(e) ==
    /\ ereq_pc[e] = "idle"
    /\ Arrives(ereq_pc, e)
    /\ IF SessionId \in active_sessions
       THEN /\ StopConversation
            /\ ereq_pc' = [ereq_pc EXCEPT ![e] = "closing"]
       ELSE /\ ereq_pc' = [ereq_pc EXCEPT ![e] = "done500"]
            /\ UNCHANGED <<is_active, wire, input_stream, terminate_count,
                           close_count>>
    /\ UNCHANGED <<host, init_pc, stream_response, audio_input_queue, audio_output_queue, pump_pc, disp_pc,
                   demo_pc, areq_pc, active_sessions, next_frame,
                   inbound_count,
                   failure_run, play_pc, output_stream>>

\* close() has returned: `del active_sessions[session_id]`, a KeyError (500)
\* when another request has removed the key meanwhile
EndReqFinish(e) ==
    /\ ereq_pc[e] = "closing"
    /\ IF SessionId \in active_sessions
       THEN /\ active_sessions' = active_sessions \ {SessionId}
            /\ ereq_pc' = [ereq_pc EXCEPT ![e] = "done200"]
       ELSE /\ ereq_pc' = [ereq_pc EXCEPT ![e] = "done500"]
            /\ UNCHANGED active_sessions
    /\ UNCHANGED <<host, init_pc, stream_response, is_active, wire, audio_input_queue, audio_output_queue, pump_pc,
                   disp_pc, demo_pc, areq_pc, close_count, terminate_count,
                   input_stream, next_frame, inbound_count,
                   failure_run, play_pc, output_stream>>

\* ------------------------------------------------------- specifications
Next ==
    \/ InitOpen
    \/ \E k \in 1..5 : InitSend(k)
    \/ InitStartTasks
    \/ PumpCheck
    \/ PumpWake
    \/ PumpSendDone
    \/ DispCheck
    \/ \E kind \in InboundKinds : DispReceive(kind)
    \/ StartConversation
    \/ DemoListen
    \/ DemoEnter
    \/ DemoStopDone
    \/ InputCallback
    \/ PlayCheck
    \/ PlayGet
    \/ PlayTimeout
    \/ PlayWriteDone
    \/ PlaySleepDone
    \/ \E r \in AudioReqs : AudioReqBegin(r)
    \/ \E r \in AudioReqs : AudioReqPush(r)
    \/ \E r \in AudioReqs : AudioReqEnd(r)
    \/ \E r \in AudioReqs : AudioReqReturn(r)
    \/ \E e \in EndReqs : EndReqBegin(e)
    \/ \E e \in EndReqs : EndReqFinish(e)

Spec == Init /\ [][Next]_vars

\* the event loop runs every task that is ready, and an await of a send, a
\* sleep or a close returns; nothing obliges the hosts' users or the remote
\* endpoint to act
FairSpec ==
    /\ Spec
    /\ WF_vars(PumpCheck) /\ WF_vars(PumpWake) /\ WF_vars(PumpSendDone)
    /\ WF_vars(DispCheck)
    /\ WF_vars(\E k \in 1..5 : InitSend(k)) /\ WF_vars(InitStartTasks)
    /\ WF_vars(StartConversation) /\ WF_vars(DemoListen)
    /\ WF_vars(DemoStopDone)
    /\ WF_vars(PlayCheck) /\ WF_vars(PlayGet) /\ WF_vars(PlayTimeout)
    /\ WF_vars(PlayWriteDone) /\ WF_vars(PlaySleepDone)
    /\ WF_vars(\E r \in AudioReqs : AudioReqPush(r))
    /\ WF_vars(\E r \in AudioReqs : AudioReqEnd(r))
    /\ WF_vars(\E r \in AudioReqs : AudioReqReturn(r))
    /\ WF_vars(\E e \in EndReqs : EndReqFinish(e))

\* the event loop runs the playback task whenever it is ready, the timeout of
\* its wait_for and its sleep run out, and the executor's write returns;
\* nothing is assumed of the other tasks, of the hosts or of the remote end
PlayFairSpec ==
    /\ Spec
    /\ WF_vars(PlayCheck) /\ WF_vars(PlayGet) /\ WF_vars(PlayTimeout)
    /\ WF_vars(PlayWriteDone) /\ WF_vars(PlaySleepDone)

\* ------------------------------------------------ reading the wire
IsAudioEvent(e) == e.ev \in {"contentStartAudio", "audioInput", "contentEndAudio"}

\* an audio content is open at the remote end: the last contentStart of the
\* audio content on w has no contentEnd of the audio content after it
TurnOpen(w) ==
    \E i \in 1..Len(w) :
        /\ w[i].ev = "contentStartAudio"
        /\ \A j \in (i + 1)..Len(w) : w[j].ev # "contentEndAudio"

\* the step hands one more event to the transport, of the given kind
Sends(kind) ==
    /\ Len(wire') = Len(wire) + 1
    /\ wire'[Len(wire')].ev = kind

\* one of the five handshake sends raised
HandshakeSendFailed ==
    \E i \in 1..Len(wire) : i <= 5 /\ ~wire[i].ok

\* --------------------------------------------------------------- claims

\* C1: initialize_stream hands exactly five handshake events to the
\* transport, in the order sessionStart, promptStart, contentStart(SYSTEM),
\* textInput(SYSTEM), contentEnd(SYSTEM), and nothing else between them: the
\* first five events of the wire are these, the k-th send finds exactly k-1
\* events on the wire, all five are there when it returns, and no handshake
\* event is ever sent again.
C1_HandshakeOrder ==
    /\ \A i \in 1..Len(wire) :
          /\ i = 1 => wire[i].ev = "sessionStart"
          /\ i = 2 => wire[i].ev = "promptStart"
          /\ i = 3 => wire[i].ev = "contentStartSystem"
          /\ i = 4 => wire[i].ev = "textInput"
          /\ i = 5 => wire[i].ev = "contentEndSystem"
          /\ i > 5 => IsAudioEvent(wire[i])
    /\ \A k \in 1..5 : init_pc = HandshakePc[k] => Len(wire) = k - 1
    /\ init_pc \in {"tasks", "done"} => Len(wire) >= 5
    /\ init_pc \in {"created", "failed"} => wire = <<>>

C1_Witness ==
    /\ init_pc = "done"
    /\ Len(wire) = 5
    /\ wire[5].ev = "contentEndSystem"

\* C2: no audio event is handed to the transport before the fifth handshake
\* event, and neither background task exists before initialize_stream has
\* sent the handshake.
C2_HandshakeBeforeAudio ==
    /\ \A i \in 1..Len(wire) :
          IsAudioEvent(wire[i]) =>
              /\ i > 5
              /\ wire[5].ev = "contentEndSystem"
    /\ pump_pc # "none" => init_pc = "done"
    /\ disp_pc # "none" => init_pc = "done"

C2_Witness ==
    \E i \in 1..Len(wire) : wire[i].ev = "audioInput"

\* C3 (as claimed): when a send of the handshake fails, initialize_stream
\* does not complete and neither background task is started.
C3_SendFailureFailsInit ==
    HandshakeSendFailed =>
        /\ init_pc # "done"
        /\ pump_pc = "none"
        /\ disp_pc = "none"

\* C4 (as claimed): the wire never carries two contentStart of the audio
\* content without a contentEnd of the audio content between them.
C4_AtMostOneOpenTurn ==
    \A i, j \in 1..Len(wire) :
        (i < j /\ wire[i].ev = "contentStartAudio"
               /\ wire[j].ev = "contentStartAudio")
        => \E k \in (i + 1)..(j - 1) : wire[k].ev = "contentEndAudio"

\* C5 (as claimed): no contentEnd of the audio content is sent while no
\* audio turn is open.
C5_NoEndWithoutOpenTurn ==
    [][Sends("contentEndAudio") => TurnOpen(wire)]_vars

\* C6 (as claimed): a stop_conversation that finds the session active with
\* an audio turn open sends the contentEnd of that turn before it closes
\* the transport.
C6_StopSendsContentEnd ==
    [][(is_active /\ TurnOpen(wire) /\ close_count' > close_count)
          => Sends("contentEndAudio")]_vars

\* C7 (as claimed): however often stop_conversation is called, the
\* transport is closed once and PyAudio is terminated once.
C7_StopIdempotent ==
    /\ close_count <= 1
    /\ terminate_count <= 1

\* C8 (as claimed): the contentEnd of a turn is handed to the transport
\* only when every frame pushed before it has been: the capture queue is
\* empty at that moment.
C8_EndAfterAllFrames ==
    [][Sends("contentEndAudio") => audio_input_queue = <<>>]_vars

\* C9: the audioInput events of the wire carry the frames in the order of
\* their capture, none twice: frames are numbered as they are queued, and
\* the numbers on the wire increase strictly.
C9_FifoOrder ==
    \A i, j \in 1..Len(wire) :
        (i < j /\ wire[i].ev = "audioInput" /\ wire[j].ev = "audioInput")
        => wire[i].frame < wire[j].frame

C9_Witness ==
    \E i, j \in 1..Len(wire) :
        /\ i < j
        /\ wire[i].ev = "audioInput"
        /\ wire[j].ev = "audioInput"

\* C10 (as claimed): once stop_conversation has run and the capture queue
\* is empty, the _process_audio_input task ends.
C10_PumpTerminates ==
    (pump_pc \in {"loop", "get", "send"} /\ close_count > 0
        /\ audio_input_queue = <<>>) ~> (pump_pc = "done")

\* the consecutive inbound failures the session is to tolerate (the bound
\* of the tolerance scenario; _process_responses has no such counter)
ToleranceBound == 2

\* the bound the capture queue is to have (asyncio.Queue() is built without
\* maxsize)
CaptureBound == 2

\* the session has been initialized and is no longer active
SessionClosed == init_pc = "done" /\ ~is_active

\* sends that have been started and have not returned
InFlightSends ==
    Cardinality({r \in AudioReqs : areq_pc[r] \in {"start_send", "end_send"}})
    + (IF pump_pc = "send" THEN 1 ELSE 0)
    + (IF demo_pc = "start_send" THEN 1 ELSE 0)

\* C11 (as claimed): after an audioInput whose send raised, the pump sends
\* no further audioInput, and once that send has returned the session is no
\* longer active.
C11_PumpSendFailureIsFatal ==
    /\ \A i, j \in 1..Len(wire) :
          (i < j /\ wire[i].ev = "audioInput" /\ ~wire[i].ok)
          => wire[j].ev # "audioInput"
    /\ \A i \in 1..Len(wire) :
          (wire[i].ev = "audioInput" /\ ~wire[i].ok
              /\ (i < Len(wire) \/ pump_pc # "send"))
          => ~is_active

\* C12: a received event that is not audioOutput leaves the playback queue
\* and the active flag as they are and the dispatcher goes on receiving;
\* the playback queue gets a new element only when an audioOutput event is
\* received (the playback loop alone takes elements out).
C12_OnlyAudioOutputEnqueues ==
    [][/\ DispReceive("otherEvent") =>
             /\ audio_output_queue' = audio_output_queue
             /\ is_active' = is_active
             /\ disp_pc' = "loop"
       /\ audio_output_queue' # audio_output_queue =>
             \/ DispReceive("audioOutput")
             \/ PlayGet /\ audio_output_queue' = Tail(audio_output_queue)]_vars

\* one message has been received, it was no failure and put nothing in the
\* playback queue, and the dispatcher is back at its loop on an active session
C12_Witness ==
    /\ inbound_count = 1
    /\ failure_run = 0
    /\ audio_output_queue = <<>>
    /\ disp_pc = "loop"
    /\ is_active

\* C13 (as claimed): once more failures have come in a row than the
\* tolerance bound, the session is no longer active.
C13_ToleranceExceededCloses ==
    failure_run > ToleranceBound => ~is_active

\* C14 (as claimed): a failed receive that keeps the run of failures within
\* the tolerance bound leaves the session active and the dispatcher running.
C14_ToleratedFailureContinues ==
    [][(failure_run' = failure_run + 1 /\ failure_run' <= ToleranceBound)
          => (is_active' = is_active /\ disp_pc' # "done")]_vars

\* C15 (as claimed): when the inbound stream ends or the receive fails, the
\* dispatcher ends, the session is no longer active and the transport has
\* been closed.
C15_ErrorPathClosesTransport ==
    [][(DispReceive("endOfStream") \/ DispReceive("receiveError"))
          => (disp_pc' = "done" /\ ~is_active' /\ close_count' > 0)]_vars

\* C16 (as claimed): when stop_conversation has returned to its caller,
\* both background tasks have returned and the transport has been closed.
C16_StopCompletesAfterTasks ==
    ((\E e \in EndReqs : ereq_pc[e] = "done200") \/ demo_pc = "finished")
    => (pump_pc = "done" /\ disp_pc = "done" /\ close_count > 0)

\* C17 (as claimed): a session that is no longer active never becomes
\* active again, and a step taken on it is a no-op: it sends nothing, queues
\* no frame, and neither closes the transport nor terminates PyAudio.
C17_ClosedIsFinal ==
    [][SessionClosed =>
          /\ ~is_active'
          /\ wire' = wire
          /\ Len(audio_input_queue') <= Len(audio_input_queue)
          /\ close_count' = close_count
          /\ terminate_count' = terminate_count]_vars

\* C18 (as claimed): the capture queue never holds more frames than its
\* bound.
C18_CaptureQueueBounded ==
    Len(audio_input_queue) <= CaptureBound

\* C19 (as claimed): at most one send on the transport is in flight.
C19_SingleWriter ==
    InFlightSends <= 1

\* C20 (as claimed): once stop_conversation has run, no frame is added to
\* the capture queue.
C20_NoEnqueueAfterStop ==
    [][close_count > 0 =>
          Len(audio_input_queue') <= Len(audio_input_queue)]_vars

\* C21 (as claimed): a send-audio or end request for a session id that is
\* not in active_sessions is answered with 404, and the step changes nothing
\* of the session or the registry.
C21_UnknownSessionIs404 ==
    [][/\ \A r \in AudioReqs :
             (areq_pc[r] = "idle" /\ areq_pc'[r] # "idle"
                 /\ SessionId \notin active_sessions)
             => /\ areq_pc'[r] = "done404"
                /\ UNCHANGED <<is_active, wire, audio_input_queue,
                               active_sessions, close_count, terminate_count>>
       /\ \A e \in EndReqs :
             (ereq_pc[e] = "idle" /\ ereq_pc'[e] # "idle"
                 /\ SessionId \notin active_sessions)
             => /\ ereq_pc'[e] = "done404"
                /\ UNCHANGED <<is_active, wire, audio_input_queue,
                               active_sessions, close_count,
                               terminate_count>>]_vars

\* a step of stop_conversation, in the demo or in an end request
StopStep == terminate_count' > terminate_count

\* C22 (as claimed): is_active changes only in initialize_stream and in
\* stop_conversation; every step of the pump, of the dispatcher and of the
\* playback loop leaves it as it is.
C22_OnlyLifecycleWritesFlag ==
    [][/\ is_active' # is_active => (init_pc = "created" \/ StopStep)
       /\ (\/ PumpCheck \/ PumpWake \/ PumpSendDone
           \/ DispCheck \/ \E kind \in InboundKinds : DispReceive(kind)
           \/ PlayCheck \/ PlayGet \/ PlayTimeout \/ PlayWriteDone
           \/ PlaySleepDone)
          => is_active' = is_active]_vars

\* the playback task exists and has not returned
PlayRunning == play_pc \in {"loop", "wait", "write", "sleep"}

\* C23: the playback loop does not stay in its dequeue for ever, and once
\* the session is not active the playback loop returns, whether or not any
\* audio arrives.
C23_PlaybackTerminates ==
    /\ (play_pc = "wait") ~> (play_pc # "wait")
    /\ (PlayRunning /\ ~is_active) ~> (play_pc = "done")

\* the dispatcher ended the session while the demo still waits for Enter,
\* and the playback loop has returned by itself on an empty queue
C23_Witness ==
    /\ demo_pc = "listening"
    /\ ~is_active
    /\ play_pc = "done"
    /\ audio_output_queue = <<>>

C25_EndStopsOnceAndRemoves ==
    /\ host = "webhook" => terminate_count <= 1
    /\ \A e \in EndReqs :
          ereq_pc[e] = "done200" => SessionId \notin active_sessions
====
